---- MODULE Spec2Model ----
(***************************************************************************)
(* Model of wayback.go: the index client (getRawListFromAPI), the fetcher  *)
(* and path mapping (downloadFile, getExtensionFromContentType), the dedup *)
(* ledger (downloadedTimestamps), recursive discovery (downloadRecursively,*)
(* downloadSnapshot) and the driver loop of main.                         *)
(*                                                                         *)
(* Strings are sequences of tokens.  "/" is the path separator, "?q" is a  *)
(* query string with its question mark, "http:" a scheme; a token of       *)
(* Dotted contains the character '.', every other token does not.          *)
(* "a.html" is always the two tokens "a", ".html", so two strings are      *)
(* equal exactly when their token sequences are.                           *)
(***************************************************************************)
EXTENDS Integers, Sequences, FiniteSets, TLC

\* ---------------------------------------------------------------- strings

Dotted == {".", "..", ".html", ".js", ".css", ".jpg", ".png", ".gif", ".svg",
           ".json", "h.com", "g.org"}

IsQuery(tok) == tok \in {"?q", "?r"}

\* strings.HasPrefix(s, p)
HasPrefix(s, p) == Len(s) >= Len(p) /\ SubSeq(s, 1, Len(p)) = p

\* strings.HasSuffix(s, p)
HasSuffix(s, p) == Len(s) >= Len(p) /\ SubSeq(s, Len(s) - Len(p) + 1, Len(s)) = p

\* strings.TrimPrefix(s, p)
TrimPrefix(s, p) == IF HasPrefix(s, p) THEN SubSeq(s, Len(p) + 1, Len(s)) ELSE s

\* strings.Contains(s, "."), for a string s
ContainsDot(s) == \E k \in 1..Len(s) : s[k] \in Dotted

\* Index of the first token of s satisfying the test, Len(s)+1 when none.
RECURSIVE FirstSlash(_, _)
FirstSlash(s, k) ==
    IF k > Len(s) THEN k
    ELSE IF s[k] = "/" THEN k ELSE FirstSlash(s, k + 1)

RECURSIVE FirstQuery(_, _)
FirstQuery(s, k) ==
    IF k > Len(s) THEN k
    ELSE IF IsQuery(s[k]) THEN k ELSE FirstQuery(s, k + 1)

\* ------------------------------------------------------------------ paths

\* The segments of a path: the maximal runs of tokens between separators
\* (empty runs included).
RECURSIVE Segments(_)
Segments(p) ==
    LET k == FirstSlash(p, 1) IN
    IF k > Len(p) THEN <<p>>
    ELSE <<SubSeq(p, 1, k - 1)>> \o Segments(SubSeq(p, k + 1, Len(p)))

\* Segments joined with "/".
RECURSIVE Unsplit(_)
Unsplit(segs) ==
    IF segs = <<>> THEN <<>>
    ELSE IF Len(segs) = 1 THEN segs[1]
    ELSE segs[1] \o <<"/">> \o Unsplit(Tail(segs))

\* filepath.Clean on the segments of a relative path: drop empty and "."
\* segments, let ".." remove the segment before it, and keep a ".." that has
\* nothing to remove.
RECURSIVE CleanSegs(_, _)
CleanSegs(segs, out) ==
    IF segs = <<>> THEN out
    ELSE LET s == Head(segs) IN
         IF s = <<>> \/ s = <<".">> THEN CleanSegs(Tail(segs), out)
         ELSE IF s = <<"..">> THEN
              IF out # <<>> /\ out[Len(out)] # <<"..">>
              THEN CleanSegs(Tail(segs), SubSeq(out, 1, Len(out) - 1))
              ELSE CleanSegs(Tail(segs), Append(out, s))
         ELSE CleanSegs(Tail(segs), Append(out, s))

\* filepath.Clean of a relative path; the empty result is ".".
Clean(p) ==
    LET segs == CleanSegs(Segments(p), <<>>) IN
    IF segs = <<>> THEN <<".">> ELSE Unsplit(segs)

\* The non-empty elements joined with "/".
RECURSIVE JoinRaw(_)
JoinRaw(elems) ==
    IF elems = <<>> THEN <<>>
    ELSE IF Head(elems) = <<>> THEN JoinRaw(Tail(elems))
    ELSE LET rest == JoinRaw(Tail(elems)) IN
         IF rest = <<>> THEN Head(elems) ELSE Head(elems) \o <<"/">> \o rest

\* filepath.Join(elems...), for a relative first element.
Join(elems) == IF JoinRaw(elems) = <<>> THEN <<>> ELSE Clean(JoinRaw(elems))

\* filepath.Base(p) of a relative path.
Base(p) ==
    LET segs == SelectSeq(Segments(p), LAMBDA s : s # <<>>) IN
    IF segs = <<>> THEN <<".">> ELSE segs[Len(segs)]

\* filepath.Dir(p) of a relative path.
Dir(p) ==
    LET segs == Segments(p) IN
    Clean(Unsplit(SubSeq(segs, 1, Len(segs) - 1)))


\* ------------------------------------------------------------------- URLs

\* url.Parse as the code uses it: a space in the host is an error (and the
\* *URL returned is nil); the query is split off; after a scheme, or at the
\* start, "//" opens the authority, which runs to the next "/"; the rest is
\* the path.
ParseURL(s) ==
    LET q    == FirstQuery(s, 1)
        noq  == SubSeq(s, 1, q - 1)
        rest == IF HasPrefix(noq, <<"http:">>) THEN Tail(noq) ELSE noq
        auth == HasPrefix(rest, <<"/", "/">>)
        k    == FirstSlash(rest, 3)
    IN  IF \E j \in 1..Len(s) : s[j] = "h com"
        THEN [ok |-> FALSE, Host |-> <<>>, Path |-> <<>>]
        ELSE IF auth
        THEN [ok |-> TRUE, Host |-> SubSeq(rest, 3, k - 1),
              Path |-> SubSeq(rest, k, Len(rest))]
        ELSE [ok |-> TRUE, Host |-> <<>>, Path |-> rest]

\* ---------------------------------------------------------- configuration

\* flag "dir", default "websites"
Directory == <<"websites">>

\* flag "url"
BaseURL == <<"http:", "/", "/", "h.com">>

TS1 == <<"20200101120000">>
TS2 == <<"20200101130000">>
Timestamps == {TS1, TS2}

Snap(ts, orig) == [Timestamp |-> ts, Original |-> orig]

\* A Content-Type header is its media type followed by its parameters;
\* the empty sequence is an absent header.
ContentTypes == {<<>>, <<"text/html", "; charset=utf-8">>,
                 <<"application/javascript">>}

\* strings.Contains(contentType, mediaType)
HasType(contentType, mediaType) ==
    \E k \in 1..Len(contentType) : contentType[k] = mediaType

getExtensionFromContentType(contentType) ==
    IF HasType(contentType, "text/html") THEN <<".html">>
    ELSE IF HasType(contentType, "application/javascript")
            \/ HasType(contentType, "text/javascript") THEN <<".js">>
    ELSE IF HasType(contentType, "text/css") THEN <<".css">>
    ELSE IF HasType(contentType, "image/jpeg") THEN <<".jpg">>
    ELSE IF HasType(contentType, "image/png") THEN <<".png">>
    ELSE IF HasType(contentType, "image/gif") THEN <<".gif">>
    ELSE IF HasType(contentType, "image/svg+xml") THEN <<".svg">>
    ELSE IF HasType(contentType, "application/json") THEN <<".json">>
    ELSE <<>>

\* The local path downloadFile writes for a parsed URL, a timestamp and the
\* response's Content-Type.
LocalPath(parsedURL, timestamp, contentType) ==
    LET relativePath == IF parsedURL.Path = <<>> \/ parsedURL.Path = <<"/">>
                        THEN <<"index", ".html">>
                        ELSE parsedURL.Path
        extension    == getExtensionFromContentType(contentType)
        fullPath     == Join(<<Directory, parsedURL.Host, timestamp, relativePath>>)
    IN  IF ~ContainsDot(Base(fullPath))
        THEN IF extension # <<>> THEN fullPath \o extension
             ELSE fullPath \o <<".html">>
        ELSE fullPath


\* ------------------------------------------------------------- the archive

H == <<"http:", "/", "/", "h.com">>

\* Original URLs of captures: pages and scripts, query strings, a leaf without
\* extension, a directory, ".." segments, an empty host.
PathOriginals == {
    H \o <<"/">>,
    H,
    H \o <<"/", "a", ".js">>,
    H \o <<"/", "a">>,
    H \o <<"/", "a", "?q">>,
    H \o <<"/", "a", "?r">>,
    H \o <<"/", "a", ".html">>,
    H \o <<"/", "d", "/">>,
    H \o <<"/", "d", "/", "..", "/", "a", ".js">>,
    H \o <<"/", "..", "/", "..", "/", "..", "/", "x">>,
    H \o <<"/", "..", "/", "..", "/", "..", "/", "..", "/", "x">>,
    <<"http:", "/", "/", "/", "a">> }

\* The links (src and href attribute values, in document order) of the HTML
\* the archive serves for an original URL.  a.html and b.html link to each
\* other.
PageLinks(original) ==
    IF original = H \o <<"/", "a", ".html">>
    THEN << <<"/", "b", ".html">>,
            H \o <<"/", "b", ".html">>,
            <<"http:", "/", "/", "g.org", "/", "x", ".js">> >>
    ELSE IF original = H \o <<"/", "b", ".html">>
    THEN << <<"/", "a", ".html">>,
            <<"/", "c", "?q">>,
            H \o <<"/", "c", "?q">> >>
    ELSE IF original = H \o <<"/", "c", ".html">>
    THEN << <<"/", "/", "g.org", "/", "x", ".js">>,
            <<".", "/", "s", ".css">>,
            <<"img", ".png">> >>
    ELSE <<>>

\* The snapshots downloadSnapshot is called with.
CallSnapshots ==
    { Snap(TS1, H \o <<"/", page, ".html">>) : page \in {"a", "b", "c"} }
    \cup { Snap(TS2, H \o <<"/", "a", ".html">>), Snap(TS1, H \o <<"/">>),
           Snap(TS1, <<"http:", "/", "/", "h com", "/">>) }

\* What the network and the file system do to one downloadFile call.
Envs == { e \in [net : {"ok", "transport"}, status : {200, 404},
                 contentType : ContentTypes,
                 fs : {"ok", "mkdir", "create", "write"},
                 cut : {"none", "all"}] :
            /\ e.net = "transport" => e.status = 200
            /\ (e.net = "transport" \/ e.status # 200)
                  => e.contentType = <<>> /\ e.fs = "ok"
            /\ e.fs # "write" => e.cut = "all" }

\* The responses to the GETs of a downloadSnapshot call: those of Envs with an
\* HTML Content-Type that fail in transport, by status, or in io.Copy, or
\* succeed.
CallEnvs == { e \in Envs : /\ e.fs \in {"ok", "write"}
                           /\ e.net = "ok" /\ e.status = 200
                                 => e.contentType = <<"text/html", "; charset=utf-8">> }

\* ------------------------------------------------------------- index client

HeaderRow == << <<"timestamp">>, <<"original">> >>

\* The rows an index response may carry: capture rows, the header, and rows
\* with fewer than two cells.
Rows == { <<TS1, H \o <<"/">> >>, <<TS2, H \o <<"/", "a", ".js">> >>,
          <<TS1, <<"http:", "/", "/", "h com", "/">> >>,
          HeaderRow, << <<"timestamp">> >>, << TS1 >>, <<>> }

\* Capture rows over PathOriginals.
PathRows == { <<ts, o>> : ts \in Timestamps, o \in PathOriginals }

MaxRows == 2

RECURSIVE SeqsUpTo(_, _)
SeqsUpTo(S, n) ==
    IF n = 0 THEN { <<>> }
    ELSE LET shorter == SeqsUpTo(S, n - 1) IN
         shorter \cup { Append(q, x) : q \in shorter, x \in S }

Bodies(rows) ==
    { [kind |-> "empty", rows |-> <<>>], [kind |-> "malformed", rows |-> <<>>] }
    \cup { [kind |-> "array", rows |-> r] : r \in SeqsUpTo(rows, MaxRows) }

\* The index responses: a failed GET, a body that cannot be read, or a status
\* and a body.
IndexResponses ==
    { [net |-> n, status |-> 200, body |-> [kind |-> "empty", rows |-> <<>>]] :
         n \in {"transport", "read"} }
    \cup { [net |-> "ok", status |-> st, body |-> b] :
             st \in {200, 503}, b \in Bodies(Rows) }

\* The successful index responses that list captures of PathOriginals.
PathResponses ==
    { [net |-> "ok", status |-> 200, body |-> [kind |-> "array", rows |-> r]] :
         r \in SeqsUpTo(PathRows, MaxRows) }

RECURSIVE RowsToSnapshots(_)
RowsToSnapshots(rawData) ==
    IF rawData = <<>> THEN <<>>
    ELSE LET row == Head(rawData) IN
         IF Len(row) >= 2
         THEN <<Snap(row[1], row[2])>> \o RowsToSnapshots(Tail(rawData))
         ELSE RowsToSnapshots(Tail(rawData))

\* StripHeader, were it to drop the first row whatever its first cell.
StripHeaderAlways(rawData) == IF Len(rawData) > 0 THEN Tail(rawData) ELSE rawData

StripHeader(rawData) ==
    IF Len(rawData) > 0 /\ Len(rawData[1]) > 0 /\ rawData[1][1] = <<"timestamp">>
    THEN Tail(rawData)
    ELSE rawData

getRawListFromAPI(resp) ==
    IF resp.net = "transport"
    THEN [err |-> "HTTP request failed", snapshots |-> <<>>]
    ELSE IF resp.net = "read"
    THEN [err |-> "failed to read response body", snapshots |-> <<>>]
    ELSE IF resp.body.kind = "empty"
    THEN [err |-> "received empty response body", snapshots |-> <<>>]
    ELSE IF resp.body.kind = "malformed"
    THEN [err |-> "failed to unmarshal JSON", snapshots |-> <<>>]
    ELSE [err |-> "nil", snapshots |-> RowsToSnapshots(StripHeader(resp.body.rows))]

\* ------------------------------------------------------------------ fetcher

NoPath == <<>>

\* One call of downloadFile: what it returns (err), whether it returned at the
\* ledger check (skipped), whether it issued the GET (got), and the file it
\* created, if any (created, path).
downloadFile(snapshot, env, ledger) ==
    LET parsedURL == ParseURL(snapshot.Original)
        fullPath  == LocalPath(parsedURL, snapshot.Timestamp, env.contentType)
        none      == [err |-> "nil", skipped |-> FALSE, got |-> TRUE,
                      created |-> FALSE, path |-> NoPath]
    IN  IF snapshot.Timestamp \in ledger
        THEN [none EXCEPT !.skipped = TRUE, !.got = FALSE]
        ELSE IF env.net = "transport" THEN [none EXCEPT !.err = "HTTP GET error"]
        ELSE IF env.status # 200 THEN [none EXCEPT !.err = "HTTP status error"]
        ELSE IF ~parsedURL.ok THEN [none EXCEPT !.err = "URL parsing error"]
        ELSE IF env.fs = "mkdir" THEN [none EXCEPT !.err = "directory creation error"]
        ELSE IF env.fs = "create" THEN [none EXCEPT !.err = "file creation error"]
        ELSE IF env.fs = "write"
        THEN [none EXCEPT !.err = "file write error", !.created = TRUE, !.path = fullPath]
        ELSE [none EXCEPT !.created = TRUE, !.path = fullPath]


\* -------------------------------------------------------------------- state

VARIABLES
    pc,                   \* main: "index", "loop", "done" or "aborted"
    response,             \* the index response main received
    indexErr,             \* the error getRawListFromAPI returned
    snapshots,            \* main's snapshots
    i,                    \* how many snapshots the loop of main has handled
    AllTimestamps,        \* WaybackDownloader.AllTimestamps
    downloadedTimestamps, \* WaybackDownloader.downloadedTimestamps (keys set true)
    fetches,              \* snapshot -> number of GETs issued for it
    writes,               \* every file creation: snapshot, Content-Type, path
    files,                \* the file tree: path -> its writer and its links
    failed,               \* calls made by main that returned an error
    lastErr,              \* the error of the latest call
    skipped,              \* downloadFile calls that returned at the ledger check
    call,                 \* the downloadSnapshot call in progress
    succeeded             \* timestamps of downloadSnapshot calls without error

vars == <<pc, response, indexErr, snapshots, i, AllTimestamps,
          downloadedTimestamps, fetches, writes, files, failed, lastErr,
          skipped, call, succeeded>>

Empty == [x \in {} |-> 0]

NoResponse == [net |-> "none", status |-> 0, body |-> [kind |-> "none", rows |-> <<>>]]

NoCall == [active |-> FALSE]

Inc(f, k) == IF k \in DOMAIN f THEN [f EXCEPT ![k] = @ + 1] ELSE f @@ (k :> 1)

Put(f, k, v) == IF k \in DOMAIN f THEN [f EXCEPT ![k] = v] ELSE f @@ (k :> v)

\* What reached the file: the whole body, or what io.Copy wrote before it
\* failed.
Written(snapshot, env) ==
    IF env.fs = "write" /\ env.cut = "none" THEN <<>>
    ELSE PageLinks(snapshot.Original)

\* The effect of one downloadFile call with result r on the network log, the
\* file tree and the skip count.
Effects(snapshot, env, r) ==
    /\ fetches' = IF r.got THEN Inc(fetches, snapshot) ELSE fetches
    /\ writes' = IF r.created
                 THEN writes \cup {[snap |-> snapshot, contentType |-> env.contentType,
                                    path |-> r.path]}
                 ELSE writes
    /\ files' = IF r.created
                THEN Put(files, r.path, [snap |-> snapshot,
                                         links |-> Written(snapshot, env)])
                ELSE files
    /\ skipped' = IF r.skipped THEN skipped + 1 ELSE skipped

\* NewWaybackDownloader and the flags main copies into it.
Init ==
    /\ pc = "index"
    /\ response = NoResponse
    /\ indexErr = "nil"
    /\ snapshots = <<>>
    /\ i = 0
    /\ AllTimestamps = FALSE
    /\ downloadedTimestamps = {}
    /\ fetches = Empty
    /\ writes = {}
    /\ files = Empty
    /\ failed = 0
    /\ lastErr = "nil"
    /\ skipped = 0
    /\ call = NoCall
    /\ succeeded = {}

\* --------------------------------------------------------------------- main

\* Where main goes after getRawListFromAPI returned err.
AfterIndex(err) == IF err # "nil" THEN "aborted" ELSE "loop"

\* AfterItem, were main to return at the first failed download.
AfterItemAbort(err) == IF err # "nil" THEN "aborted" ELSE "loop"

\* Where main goes after downloadFile returned err for one snapshot: it prints
\* the error and takes the next snapshot.
AfterItem(err) == "loop"

MainIndex(responses) ==
    /\ pc = "index"
    /\ \E resp \in responses :
         LET got == getRawListFromAPI(resp) IN
         /\ response' = resp
         /\ indexErr' = got.err
         /\ snapshots' = got.snapshots
         /\ pc' = AfterIndex(got.err)
    /\ UNCHANGED <<i, AllTimestamps, downloadedTimestamps, fetches, writes, files,
                   failed, lastErr, skipped, call, succeeded>>

MainDownload ==
    /\ pc = "loop"
    /\ i < Len(snapshots)
    /\ \E env \in Envs :
         LET snapshot == snapshots[i + 1]
             r == downloadFile(snapshot, env, downloadedTimestamps)
         IN  /\ Effects(snapshot, env, r)
             /\ lastErr' = r.err
             /\ failed' = IF r.err # "nil" THEN failed + 1 ELSE failed
             /\ pc' = AfterItem(r.err)
    /\ i' = i + 1
    /\ UNCHANGED <<response, indexErr, snapshots, AllTimestamps,
                   downloadedTimestamps, call, succeeded>>

MainDone ==
    /\ pc = "loop"
    /\ i = Len(snapshots)
    /\ pc' = "done"
    /\ UNCHANGED <<response, indexErr, snapshots, i, AllTimestamps,
                   downloadedTimestamps, fetches, writes, files, failed, lastErr,
                   skipped, call, succeeded>>

Next == MainIndex(IndexResponses) \/ MainDownload \/ MainDone

Spec == Init /\ [][Next]_vars

\* main over an index of captures of PathOriginals.
NextPaths == MainIndex(PathResponses) \/ MainDownload \/ MainDone

SpecPaths == Init /\ [][NextPaths]_vars


\* ------------------------------------------------------ recursive discovery

\* The resource URLs downloadRecursively collects from the src and href
\* values of a page, each with the attribute value it came from.
RECURSIVE ExtractLinks(_, _)
ExtractLinks(links, host) ==
    IF links = <<>> THEN <<>>
    ELSE LET val == Head(links)
             resourceURL == ParseURL(val)
             rest == ExtractLinks(Tail(links), host)
         IN  IF HasPrefix(val, <<"/">>) \/ HasPrefix(val, <<".", "/">>)
             THEN <<[val |-> val, u |-> TrimPrefix(val, <<".">>)]>> \o rest
             ELSE IF HasPrefix(val, <<"http:">>)
                     /\ resourceURL.ok /\ resourceURL.Host = host
             THEN <<[val |-> val, u |-> resourceURL.Path]>> \o rest
             ELSE rest

\* The path downloadRecursively opens after downloadFile returned nil.
PagePath(parsedURL, timestamp) ==
    LET fullPath == Join(<<Directory, parsedURL.Host, timestamp, parsedURL.Path>>) IN
    IF parsedURL.Path = <<>> \/ parsedURL.Path = <<"/">>
    THEN Join(<<Dir(fullPath), <<"index", ".html">>>>)
    ELSE fullPath

\* The snapshot downloadRecursively builds for a collected resource URL.
ResourceSnapshot(snapshot, u) == Snap(snapshot.Timestamp, BaseURL \o u)

\* Discovered, were the loop to call downloadRecursively for the resource: the
\* links of a downloaded HTML resource join the collected URLs.
DiscoveredRecursively(newSnapshot, r) ==
    IF r.created /\ r.err = "nil" /\ HasSuffix(r.path, <<".html">>)
    THEN ExtractLinks(PageLinks(newSnapshot.Original),
                      ParseURL(newSnapshot.Original).Host)
    ELSE <<>>

\* What the loop over the collected URLs adds to them after it downloaded one
\* resource: it calls downloadFile, not downloadRecursively, so nothing.
Discovered(newSnapshot, r) == <<>>

\* MarkDownloaded, were the timestamp recorded whatever err is.
MarkDownloadedAlways(ledger, snapshot, err) ==
    IF AllTimestamps THEN ledger \cup {snapshot.Timestamp} ELSE ledger

\* downloadedTimestamps after downloadRecursively returned err for a snapshot.
MarkDownloaded(ledger, snapshot, err) ==
    IF err = "nil" /\ AllTimestamps THEN ledger \cup {snapshot.Timestamp} ELSE ledger

MaxCalls == 2

\* A WaybackDownloader whose downloadSnapshot is called, one call after the
\* other, with AllTimestamps set or not.
InitSnapshot ==
    /\ pc = "calls"
    /\ response = NoResponse
    /\ indexErr = "nil"
    /\ snapshots = <<>>
    /\ i = 0
    /\ AllTimestamps \in BOOLEAN
    /\ downloadedTimestamps = {}
    /\ fetches = Empty
    /\ writes = {}
    /\ files = Empty
    /\ failed = 0
    /\ lastErr = "nil"
    /\ skipped = 0
    /\ call = NoCall
    /\ succeeded = {}

\* downloadSnapshot up to the loop over the collected URLs: downloadFile for
\* the snapshot, then the page is opened and its links are collected.
SnapshotStart ==
    /\ pc = "calls"
    /\ ~call.active
    /\ i < MaxCalls
    /\ i' = i + 1
    /\ \E snapshot \in CallSnapshots, env \in CallEnvs :
         LET r == downloadFile(snapshot, env, downloadedTimestamps)
             parsedURL == ParseURL(snapshot.Original)
             fullPath == PagePath(parsedURL, snapshot.Timestamp)
             fail(err) ==
                 /\ call' = NoCall
                 /\ lastErr' = err
                 /\ failed' = failed + 1
                 /\ downloadedTimestamps' = MarkDownloaded(downloadedTimestamps, snapshot, err)
                 /\ pc' = pc
             collect(page) ==
                 /\ call' = [active |-> TRUE, snapshot |-> snapshot, page |-> page,
                             urls |-> ExtractLinks(page, parsedURL.Host), k |-> 0,
                             gets |-> IF r.got THEN {snapshot} ELSE {}, n |-> 1]
                 /\ UNCHANGED <<lastErr, failed, downloadedTimestamps, pc>>
         IN  /\ Effects(snapshot, env, r)
             /\ IF r.err # "nil" THEN fail(r.err)
                ELSE IF ~parsedURL.ok
                THEN \* parsedURL is nil: the read of parsedURL.Host panics
                     /\ pc' = "panic"
                     /\ call' = NoCall
                     /\ UNCHANGED <<lastErr, failed, downloadedTimestamps>>
                ELSE IF ~HasSuffix(fullPath, <<".html">>) THEN collect(<<>>)
                ELSE IF fullPath \notin DOMAIN files' THEN fail("open error")
                ELSE collect(files'[fullPath].links)
    /\ UNCHANGED <<response, indexErr, snapshots, AllTimestamps, succeeded>>

\* One turn of the loop over the collected URLs.
SnapshotResource ==
    /\ pc = "calls"
    /\ call.active
    /\ call.k < Len(call.urls)
    /\ \E env \in CallEnvs :
         LET newSnapshot == ResourceSnapshot(call.snapshot, call.urls[call.k + 1].u)
             r == downloadFile(newSnapshot, env, downloadedTimestamps)
         IN  /\ Effects(newSnapshot, env, r)
             /\ call' = [call EXCEPT
                           !.k = @ + 1,
                           !.urls = @ \o Discovered(newSnapshot, r),
                           !.gets = IF r.got THEN @ \cup {newSnapshot} ELSE @,
                           !.n = @ + 1]
    /\ UNCHANGED <<pc, response, indexErr, snapshots, i, AllTimestamps,
                   downloadedTimestamps, failed, lastErr, succeeded>>

\* downloadRecursively returns nil and downloadSnapshot records the timestamp.
SnapshotFinish ==
    /\ pc = "calls"
    /\ call.active
    /\ call.k = Len(call.urls)
    /\ call' = NoCall
    /\ lastErr' = "nil"
    /\ succeeded' = succeeded \cup {call.snapshot.Timestamp}
    /\ downloadedTimestamps' = MarkDownloaded(downloadedTimestamps, call.snapshot, "nil")
    /\ UNCHANGED <<pc, response, indexErr, snapshots, i, AllTimestamps, fetches,
                   writes, files, failed, skipped>>

NextSnapshot == SnapshotStart \/ SnapshotResource \/ SnapshotFinish

SpecSnapshot == InitSnapshot /\ [][NextSnapshot]_vars


\* =================================================================== claims

RECURSIVE Total(_)
Total(f) ==
    IF DOMAIN f = {} THEN 0
    ELSE LET k == CHOOSE x \in DOMAIN f : TRUE IN
         f[k] + Total([x \in DOMAIN f \ {k} |-> f[x]])

\* C1: each unique (timestamp, URL) key is fetched at most once in a run: no
\* key has more than one GET issued for it.
C1_EachKeyFetchedAtMostOnce == \A key \in DOMAIN fetches : fetches[key] <= 1

IsUnderRoot(path) == HasPrefix(path, Directory \o <<"/">>)

HasDotDot(path) == \E n \in 1..Len(Segments(path)) : Segments(path)[n] = <<"..">>

\* C2: every local path downloadFile creates is rooted under the output
\* directory and has no ".." segment; a path that would escape is not written.
C2_WritesStayUnderRoot ==
    \A w \in writes : IsUnderRoot(w.path) /\ ~HasDotDot(w.path)

\* C3: two snapshots with different claim-keys are never written to the same
\* local path.
C3_DistinctKeysDistinctPaths ==
    \A w1, w2 \in writes : w1.snap # w2.snap => w1.path # w2.path

C4_RunState ==
    /\ pc = "aborted" => indexErr # "nil" /\ i = 0 /\ fetches = Empty
    /\ pc = "done" => indexErr = "nil" /\ i = Len(snapshots)
    /\ pc = "loop" => indexErr = "nil" /\ i <= Len(snapshots)
    /\ pc \in {"loop", "done"} => Total(fetches) = i

\* C4: a failed download never stops the run.  A run that ended early did so
\* on an index error, before any GET; every step of the loop, whatever
\* downloadFile returned, handles one more snapshot and stays in the loop, and
\* the loop is left only for the end of the run, when every snapshot of the
\* index has been handled and has had its GET issued.
C4_ItemFailuresDoNotStopRun ==
    /\ []C4_RunState
    /\ [][pc = "loop" =>
            \/ i < Len(snapshots) /\ i' = i + 1 /\ pc' = "loop"
                 /\ snapshots' = snapshots
            \/ i = Len(snapshots) /\ pc' = "done" ]_vars

\* A run completed although its first download failed, the second succeeded.
C4_Witness ==
    /\ pc = "done" /\ Len(snapshots) = 2
    /\ failed = 1 /\ lastErr = "nil" /\ Total(fetches) = 2

\* The segments of a remote path that are not empty.
RemoteSegments(path) == SelectSeq(Segments(path), LAMBDA seg : seg # <<>>)

\* The original URL has a host and a remote path without "." or ".."
\* segments.
IsPlain(snapshot) ==
    LET u == ParseURL(snapshot.Original) IN
    /\ u.ok /\ u.Host # <<>>
    /\ \A n \in 1..Len(RemoteSegments(u.Path)) :
          RemoteSegments(u.Path)[n] \notin {<<".">>, <<"..">>}

\* The local path the Path Mapper rules give: index.html for an empty or "/"
\* path, the directory with index.html for a path with a trailing "/", a leaf
\* with a "." kept, any other leaf with the extension of the content type,
\* ".html" when there is none.
RuledPath(snapshot, contentType) ==
    LET u        == ParseURL(snapshot.Original)
        segs     == RemoteSegments(u.Path)
        index    == <<"index", ".html">>
        ext      == IF getExtensionFromContentType(contentType) = <<>>
                    THEN <<".html">>
                    ELSE getExtensionFromContentType(contentType)
        leaf     == segs[Len(segs)]
        mapped   == IF segs = <<>> THEN <<index>>
                    ELSE IF u.Path[Len(u.Path)] = "/" THEN Append(segs, index)
                    ELSE IF ContainsDot(leaf) THEN segs
                    ELSE [segs EXCEPT ![Len(segs)] = leaf \o ext]
    IN  Unsplit(<<Directory, u.Host, snapshot.Timestamp>> \o mapped)

\* C9: the local path of every written file follows the Path Mapper rules for
\* its remote path and content type.
C9_LeafFollowsRules ==
    \A w \in writes : IsPlain(w.snap) => w.path = RuledPath(w.snap, w.contentType)

\* The rows of the response without the first one when its first cell is
\* "timestamp".
RowsAfterHeader ==
    LET rows == response.body.rows IN
    IF rows # <<>> /\ rows[1] # <<>> /\ rows[1][1] = <<"timestamp">>
    THEN Tail(rows) ELSE rows

IndexParsed == pc # "index" /\ response.net = "ok" /\ response.body.kind = "array"

\* C5 as stated: for a response that parses as an array of rows, the first row
\* is dropped exactly when its first cell is "timestamp", and the rest yields
\* one Snapshot per row, in the same order and count; an empty array yields an
\* empty sequence and no error.
C5_OneSnapshotPerRow ==
    IndexParsed =>
       /\ indexErr = "nil"
       /\ Len(snapshots) = Len(RowsAfterHeader)
       /\ \A n \in 1..Len(snapshots) :
             /\ Len(RowsAfterHeader[n]) >= 2
             /\ snapshots[n] = Snap(RowsAfterHeader[n][1], RowsAfterHeader[n][2])

\* C5 amended: the first row is dropped exactly when its first cell is
\* "timestamp"; the rest yields one Snapshot per row that has at least two
\* cells, in the same order, and the rows with fewer cells are left out; an
\* empty array yields an empty sequence and no error.
C5_OneSnapshotPerFullRow ==
    IndexParsed =>
       LET full == SelectSeq(RowsAfterHeader, LAMBDA row : Len(row) >= 2) IN
       /\ indexErr = "nil"
       /\ Len(snapshots) = Len(full)
       /\ \A n \in 1..Len(snapshots) : snapshots[n] = Snap(full[n][1], full[n][2])
       /\ response.body.rows = <<>> => snapshots = <<>>

\* A response of a one-cell row followed by a capture row gave one Snapshot.
C5_Witness ==
    /\ IndexParsed
    /\ response.body.rows = << <<TS1>>, <<TS2, H \o <<"/", "a", ".js">> >> >>
    /\ snapshots = << Snap(TS2, H \o <<"/", "a", ".js">>) >>

\* C6: a transport failure, a non-success status, an empty body and a
\* malformed body each make the index call return an error with no snapshots,
\* and the run aborts before any download.
C6_IndexErrorsAbort ==
    (pc # "index" /\ (\/ response.net # "ok"
                      \/ response.status # 200
                      \/ response.body.kind \in {"empty", "malformed"}))
       => /\ indexErr # "nil"
          /\ snapshots = <<>>
          /\ pc = "aborted"
          /\ fetches = Empty


\* The snapshots the collected URLs of a page stand for.
DirectResources(snapshot, page) ==
    LET urls == ExtractLinks(page, ParseURL(snapshot.Original).Host) IN
    { ResourceSnapshot(snapshot, urls[n].u) : n \in 1..Len(urls) }

Pending(c) == Len(c.urls) - c.k

\* C7: recursive discovery stops at depth 1 and terminates.  While a snapshot
\* is handled, every GET is for the snapshot itself or for a resource its own
\* page refers to; there are at most as many downloadFile calls as the page
\* has collected links, plus one; the URLs still to download are those of the
\* page only; and every turn of the loop leaves one URL less to download.
C7_DepthOneAndTerminates ==
    [][ /\ call'.active =>
            /\ call'.gets \subseteq
                  {call'.snapshot} \cup DirectResources(call'.snapshot, call'.page)
            /\ call'.n <= 1 + Len(ExtractLinks(call'.page,
                                     ParseURL(call'.snapshot.Original).Host))
            /\ call'.n = 1 + call'.k
        /\ (call.active /\ call'.active) =>
            /\ call'.snapshot = call.snapshot /\ call'.page = call.page
            /\ Pending(call') < Pending(call)
      ]_vars

\* b.html, which links to a.html, which links back: all three resources of
\* b.html were downloaded, a.html among them, and nothing is left to download.
C7_Witness ==
    /\ call.active
    /\ call.snapshot = Snap(TS1, H \o <<"/", "b", ".html">>)
    /\ call.k = 3 /\ Pending(call) = 0
    /\ Snap(TS1, H \o <<"/", "a", ".html">>) \in call.gets
    /\ (Directory \o <<"/", "h.com", "/">> \o TS1 \o <<"/", "a", ".html">>) \in DOMAIN files

\* The download targets collected for the attribute value val.
Targets(val) ==
    { ResourceSnapshot(call.snapshot, call.urls[n].u) :
        n \in { m \in 1..Len(call.urls) : call.urls[m].val = val } }

\* C8: a root-relative link and the same-host absolute link that names the
\* same resource resolve to the same download target, and no link to another
\* host is among the collected URLs.
C8_SameTargetAndNoCrossHost ==
    call.active =>
       LET host == ParseURL(call.snapshot.Original).Host IN
       /\ \A n1, n2 \in 1..Len(call.page) :
             LET rel == call.page[n1]
                 abs == call.page[n2]
             IN  (/\ HasPrefix(rel, <<"/">>) /\ ~HasPrefix(rel, <<"/", "/">>)
                  /\ abs = <<"http:", "/", "/">> \o host \o rel)
                    => Targets(rel) # {} /\ Targets(rel) = Targets(abs)
       /\ \A n \in 1..Len(call.urls) :
             ParseURL(call.urls[n].val).Host \in {<<>>, host}

\* C10: the dedup ledger.  Entries are never removed; a marked timestamp is
\* that of a downloadSnapshot call that finished without error, and is marked
\* only with AllTimestamps set; a failed downloadSnapshot leaves the ledger as
\* it was; and without AllTimestamps the ledger stays empty and downloadFile
\* never returns at the ledger check.
C10_LedgerInvariant ==
    [][ /\ downloadedTimestamps \subseteq downloadedTimestamps'
        /\ downloadedTimestamps' \subseteq succeeded'
        /\ downloadedTimestamps' # {} => AllTimestamps'
        /\ failed' > failed => downloadedTimestamps' = downloadedTimestamps
        /\ ~AllTimestamps' => downloadedTimestamps' = {} /\ skipped' = 0
      ]_vars

\* With AllTimestamps set, one timestamp is marked and the other is not, a
\* downloadSnapshot call has failed and a downloadFile call was skipped.
C10_Witness ==
    /\ AllTimestamps
    /\ downloadedTimestamps = {TS1}
    /\ succeeded = {TS1}
    /\ failed > 0 /\ skipped > 0

====
